---------------------------- MODULE Spec2Model ----------------------------
(***************************************************************************)
(* A model of plotlib: the Styles registry, DotDict and merge_dicts of     *)
(* plotlib/util.py, and apply_properties and set_color of                  *)
(* plotlib/root/tools.py.                                                  *)
(*                                                                         *)
(* Python values are modelled as follows.                                  *)
(*   - A dict is a record [cls, items]: cls is its class ("dict" or        *)
(*     "DotDict") and items the sequence of its <<key, value>> pairs in    *)
(*     insertion order, keys unique.                                       *)
(*   - None is the record NoneValue; an int that is no dict is IntValue.   *)
(*   - Objects with identity (styles held by the registry, the arguments   *)
(*     and the result of merge_dicts) live in a heap, reference |-> value. *)
(*   - A setter argument is [kind, elems]: kind "scalar" with one element, *)
(*     or "tuple" / "list" with the elements of the sequence.              *)
(*   - A raised exception is the name of its class, "none" when the call   *)
(*     returned.                                                           *)
(***************************************************************************)
EXTENDS Naturals, Sequences, FiniteSets, TLC

VARIABLES
    _styles,    \* Styles._styles: style name |-> reference of the style
    _stack,     \* Styles._stack: the style names pushed by open use scopes
    frames,     \* the open `with styles.use(..)` blocks, outermost first
    heap,       \* reference |-> dict value
    obj,        \* the target object: attribute name |-> "callable" | "data"
    calls,      \* the setter invocations the target has received
    last        \* the last operation: its arguments and its outcome

vars == <<_styles, _stack, frames, heap, obj, calls, last>>

(***************************************************************************)
(* Bounds of the model.                                                    *)
(***************************************************************************)
MaxDepth == 2       \* open use scopes
MaxVal == 2         \* values stored under a key are 1..MaxVal
MaxFlags == 3       \* length of a flag string
MaxSources == 2     \* property sources passed to apply_properties

Vals == 1..MaxVal

(***************************************************************************)
(* dict                                                                    *)
(***************************************************************************)
NoneValue == [cls |-> "NoneType", items |-> <<>>]
IntValue == [cls |-> "int", items |-> <<>>]

\* isinstance(d, dict): DotDict subclasses dict (util.py line 14)
IsDict(d) == d.cls \in {"dict", "DotDict"}

\* cls(): a new, empty dict of class cls
NewDict(cls) == [cls |-> cls, items |-> <<>>]

\* k in d
HasKey(d, k) == \E i \in 1..Len(d.items) : d.items[i][1] = k

\* d[k], for a key that is present
GetItem(d, k) == d.items[CHOOSE i \in 1..Len(d.items) : d.items[i][1] = k][2]

\* d[k] = v: an existing key keeps its place, a new key is added at the end
SetItem(d, k, v) ==
    IF HasKey(d, k)
    THEN [d EXCEPT !.items =
            [i \in 1..Len(d.items) |->
                IF d.items[i][1] = k THEN <<k, v>> ELSE d.items[i]]]
    ELSE [d EXCEPT !.items = Append(d.items, <<k, v>>)]

\* the keys of d
KeysOf(d) == {d.items[i][1] : i \in 1..Len(d.items)}

\* the dicts of the given classes over keys and vals, in every insertion
\* order
ItemSeqs(keys, vals) ==
    {s \in UNION {[1..n -> keys \X vals] : n \in 0..Cardinality(keys)} :
        \A i, j \in 1..Len(s) : i # j => s[i][1] # s[j][1]}

DictsOver(classes, keys, vals) ==
    {[cls |-> c, items |-> s] : c \in classes, s \in ItemSeqs(keys, vals)}

\* Python's d == e on dicts: the same keys with the same values, whatever
\* the order and the class
DictEq(d, e) ==
    /\ KeysOf(d) = KeysOf(e)
    /\ \A k \in KeysOf(d) : GetItem(d, k) = GetItem(e, k)

RECURSIVE UpdateItems(_, _, _)
UpdateItems(d, items, i) ==
    IF i > Len(items)
    THEN d
    ELSE UpdateItems(SetItem(d, items[i][1], items[i][2]), items, i + 1)

\* an update that keeps the value of a key that is already there
UpdateFirstWins(d, e) ==
    LET fresh == SelectSeq(e.items, LAMBDA kv : ~HasKey(d, kv[1]))
    IN  UpdateItems(d, fresh, 1)

\* d.update(e)
Update(d, e) == UpdateItems(d, e.items, 1)

(***************************************************************************)
(* merge_dicts                                                             *)
(***************************************************************************)
\* the first loop of merge_dicts: the class of the first dict among dicts,
\* "None" when there is none
InferCls(dicts) ==
    IF \E i \in 1..Len(dicts) : IsDict(dicts[i])
    THEN LET first == CHOOSE i \in 1..Len(dicts) :
                        /\ IsDict(dicts[i])
                        /\ \A j \in 1..(i - 1) : ~IsDict(dicts[j])
         IN  dicts[first].cls
    ELSE "None"

\* the second loop of merge_dicts
RECURSIVE MergeLoop(_, _, _)
MergeLoop(merged_dict, dicts, i) ==
    IF i > Len(dicts)
    THEN merged_dict
    ELSE MergeLoop(IF IsDict(dicts[i])
                   THEN Update(merged_dict, dicts[i])
                   ELSE merged_dict,
                   dicts, i + 1)

\* merge_dicts that updates with every entry: None has no items to update
\* with, and the update raises TypeError
MergeDictsNoSkip(dicts, cls) ==
    IF \E i \in 1..Len(dicts) : ~IsDict(dicts[i])
    THEN [raised |-> "TypeError", ret |-> NoneValue]
    ELSE LET c == IF cls # "None" THEN cls ELSE InferCls(dicts)
         IN  [raised |-> "none", ret |-> MergeLoop(NewDict(c), dicts, 1)]

\* merge_dicts(*dicts, cls=cls)
MergeDicts(dicts, cls) ==
    LET c == IF cls # "None" THEN cls ELSE InferCls(dicts)
    IN  IF c = "None"
        THEN [raised |-> "TypeError", ret |-> NoneValue]
        ELSE [raised |-> "none", ret |-> MergeLoop(NewDict(c), dicts, 1)]


(***************************************************************************)
(* Styles                                                                  *)
(***************************************************************************)
DEFAULT_STYLE_NAME == "default"

\* the style names callers use; all but the default start unregistered
StyleNames == {"default", "a", "b"}

\* the objects callers pass to set: the DotDict that __init__ registers, a
\* plain dict made by the caller, and the int 5
DefaultRef == "d0"
PlainRef == "d1"
IntRef == "five"
StyleRefs == {DefaultRef, PlainRef, IntRef}

\* the keys of a style, and the attribute names looked up on the registry;
\* none is defined on Styles itself, "copy" is a method that dict defines
StyleKeys == {"canvas", "copy"}
DictClassAttrs == {"copy"}
StyleVals == {"v1", "v2"}

Ret(kind, ref, val) == [kind |-> kind, ref |-> ref, val |-> val]
NoRet == Ret("none", "-", "-")

Outcome(op, name, ref, how, raised, ret) ==
    [op |-> op, name |-> name, ref |-> ref, how |-> how, raised |-> raised,
     ret |-> ret]

Front(s) == SubSeq(s, 1, Len(s) - 1)
Last(s) == s[Len(s)]

\* DotDict.__getattr__: self[attr], a KeyError raised again as AttributeError
DotDictGetattrNoRemap(d, attr) ==
    IF HasKey(d, attr)
    THEN [raised |-> "none", ret |-> Ret("value", "-", GetItem(d, attr))]
    ELSE [raised |-> "KeyError", ret |-> NoRet]

DotDictGetattr(d, attr) ==
    IF HasKey(d, attr)
    THEN [raised |-> "none", ret |-> Ret("value", "-", GetItem(d, attr))]
    ELSE [raised |-> "AttributeError", ret |-> NoRet]

\* getattr(d, attr) on a dict: an attribute of the class is found first (a
\* method of dict); __getattr__ is only asked when that lookup misses, and
\* only DotDict defines it
PyGetattr(d, attr) ==
    IF attr \in DictClassAttrs
    THEN [raised |-> "none", ret |-> Ret("method", "-", attr)]
    ELSE IF d.cls = "DotDict"
    THEN DotDictGetattr(d, attr)
    ELSE [raised |-> "AttributeError", ret |-> NoRet]

\* Styles.get: self._styles[style_name]
StylesGet(styles, style_name) ==
    IF style_name \in DOMAIN styles
    THEN [raised |-> "none", ret |-> Ret("ref", styles[style_name], "-")]
    ELSE [raised |-> "KeyError", ret |-> NoRet]

\* Styles.current_style_name
CurrentStyleNameOf(stack) ==
    IF stack # <<>> THEN Last(stack) ELSE DEFAULT_STYLE_NAME

CurrentStyleName == CurrentStyleNameOf(_stack)

\* Styles.current_style
CurrentStyleOf(styles, stack) == StylesGet(styles, CurrentStyleNameOf(stack))

CurrentStyle == CurrentStyleOf(_styles, _stack)

\* Styles.__getattr__: getattr(self.current_style, attr)
StylesGetattr(styles, stack, hp, attr) ==
    LET cur == CurrentStyleOf(styles, stack)
    IN  IF cur.raised # "none" THEN cur ELSE PyGetattr(hp[cur.ret.ref], attr)

\* the values the caller's objects start with: DotDict(), {"canvas": "v1"}
\* and 5
StyleHeapInit ==
    [r \in StyleRefs |->
        CASE r = DefaultRef -> NewDict("DotDict")
          [] r = PlainRef -> SetItem(NewDict("dict"), "canvas", "v1")
          [] OTHER -> IntValue]

\* Styles.__init__ without the registration of the default style
StylesInitNoDefault ==
    /\ _stack = <<>>
    /\ _styles = <<>>
    /\ frames = <<>>

\* Styles.__init__
StylesInit ==
    /\ _stack = <<>>
    /\ _styles = (DEFAULT_STYLE_NAME :> DefaultRef)
    /\ frames = <<>>

\* Styles.set that stores before it checks the type
SetStoreFirst(style_name, ref) ==
    /\ _styles' = (style_name :> ref) @@ _styles
    /\ last' = IF ~IsDict(heap[ref])
               THEN Outcome("set", style_name, ref, "-", "TypeError", NoRet)
               ELSE Outcome("set", style_name, ref, "-", "none",
                            Ret("ref", ref, "-"))
    /\ UNCHANGED <<_stack, frames, heap, obj, calls>>

\* Styles.set
Set(style_name, ref) ==
    /\ IF ~IsDict(heap[ref])
       THEN /\ last' = Outcome("set", style_name, ref, "-", "TypeError", NoRet)
            /\ UNCHANGED _styles
       ELSE /\ _styles' = (style_name :> ref) @@ _styles
            /\ last' = Outcome("set", style_name, ref, "-", "none",
                               Ret("ref", ref, "-"))
    /\ UNCHANGED <<_stack, frames, heap, obj, calls>>

\* Styles.get, called by the user
Get(style_name) ==
    /\ LET r == StylesGet(_styles, style_name)
       IN  last' = Outcome("get", style_name, "-", "-", r.raised, r.ret)
    /\ UNCHANGED <<_styles, _stack, frames, heap, obj, calls>>

\* the generator frame of an open scope: its argument, the style it
\* yielded, and (for the record) the stack as it was when it was entered
Frame(style_name, yielded, entry_stack) ==
    [style_name |-> style_name, yielded |-> yielded,
     entry_stack |-> entry_stack]

\* Styles.use that appends before it checks the name
UseAppendFirst(style_name) ==
    /\ IF style_name \notin DOMAIN _styles
       THEN /\ _stack' = Append(_stack, style_name)
            /\ last' = Outcome("use", style_name, "-", "-", "ValueError", NoRet)
            /\ UNCHANGED frames
       ELSE /\ Len(frames) < MaxDepth
            /\ _stack' = Append(_stack, style_name)
            /\ LET y == StylesGet(_styles, style_name)
               IN  /\ frames' = Append(frames,
                                       Frame(style_name, y.ret.ref, _stack))
                   /\ last' = Outcome("use", style_name, "-", "-", "none", y.ret)
    /\ UNCHANGED <<_styles, heap, obj, calls>>

\* Styles.use that yields the style that is current before the append
UseYieldStale(style_name) ==
    /\ IF style_name \notin DOMAIN _styles
       THEN /\ last' = Outcome("use", style_name, "-", "-", "ValueError", NoRet)
            /\ UNCHANGED <<_stack, frames>>
       ELSE /\ Len(frames) < MaxDepth
            /\ _stack' = Append(_stack, style_name)
            /\ LET y == CurrentStyleOf(_styles, _stack)
               IN  /\ frames' = Append(frames,
                                       Frame(style_name, y.ret.ref, _stack))
                   /\ last' = Outcome("use", style_name, "-", "-", "none", y.ret)
    /\ UNCHANGED <<_styles, heap, obj, calls>>

\* `with styles.use(style_name):` up to the yield, that is, entering the scope
Use(style_name) ==
    /\ IF style_name \notin DOMAIN _styles
       THEN /\ last' = Outcome("use", style_name, "-", "-", "ValueError", NoRet)
            /\ UNCHANGED <<_stack, frames>>
       ELSE /\ Len(frames) < MaxDepth
            /\ _stack' = Append(_stack, style_name)
            /\ LET y == StylesGet(_styles, style_name)
               IN  /\ frames' = Append(frames,
                                       Frame(style_name, y.ret.ref, _stack))
                   /\ last' = Outcome("use", style_name, "-", "-", "none", y.ret)
    /\ UNCHANGED <<_styles, heap, obj, calls>>

\* the end of the scope with the pop outside a finally clause: an error
\* raised by the body skips it
UseExitNoFinally(how) ==
    /\ frames # <<>>
    /\ _stack' = IF how = "error" THEN _stack ELSE Front(_stack)
    /\ frames' = Front(frames)
    /\ last' = Outcome("exit", Last(frames).style_name, "-", how,
                       IF how = "error" THEN "BodyError" ELSE "none", NoRet)
    /\ UNCHANGED <<_styles, heap, obj, calls>>

\* the end of the innermost scope, the body having completed ("normal") or
\* raised ("error"): the finally clause pops the stack, the error propagates
UseExit(how) ==
    /\ frames # <<>>
    /\ _stack' = Front(_stack)
    /\ frames' = Front(frames)
    /\ last' = Outcome("exit", Last(frames).style_name, "-", how,
                       IF how = "error" THEN "BodyError" ELSE "none", NoRet)
    /\ UNCHANGED <<_styles, heap, obj, calls>>

\* registry.<attr>, for an attribute that Styles does not define
Getattr(attr) ==
    /\ LET r == StylesGetattr(_styles, _stack, heap, attr)
       IN  last' = Outcome("getattr", attr, "-", "-", r.raised, r.ret)
    /\ UNCHANGED <<_styles, _stack, frames, heap, obj, calls>>

\* DotDict.__setattr__ on a style the caller holds: self[attr] = value
DotDictSetattr(ref, attr, value) ==
    /\ heap[ref].cls = "DotDict"
    /\ heap' = [heap EXCEPT ![ref] = SetItem(heap[ref], attr, value)]
    /\ last' = Outcome("setattr", attr, ref, "-", "none", NoRet)
    /\ UNCHANGED <<_styles, _stack, frames, obj, calls>>

NoTarget == <<>>

InitStyles ==
    /\ StylesInit
    /\ heap = StyleHeapInit
    /\ obj = NoTarget
    /\ calls = <<>>
    /\ last = Outcome("init", "-", "-", "-", "none", NoRet)

NextStyles ==
    \/ \E n \in StyleNames, r \in StyleRefs : Set(n, r)
    \/ \E n \in StyleNames : Get(n)
    \/ \E n \in StyleNames : Use(n)
    \/ \E how \in {"normal", "error"} : UseExit(how)
    \/ \E a \in StyleKeys : Getattr(a)
    \/ \E r \in StyleRefs, a \in StyleKeys, v \in StyleVals :
            DotDictSetattr(r, a, v)

SpecStyles == InitStyles /\ [][NextStyles]_vars


(***************************************************************************)
(* Properties of Styles, checked under SpecStyles.                         *)
(***************************************************************************)
InnermostName(fs) ==
    IF fs = <<>> THEN DEFAULT_STYLE_NAME ELSE Last(fs).style_name

\* C1: the exit of a use scope, normal or by an error of the body, leaves
\* the activation stack as it was just before the scope was entered, and
\* after every step current_style_name is the name of the innermost scope
\* still open, the default name when none is.
C1_ExitRestoresStack ==
    [][/\ Len(frames') < Len(frames) => _stack' = Last(frames).entry_stack
       /\ CurrentStyleNameOf(_stack') = InnermostName(frames')]_vars

\* C1, its case: inside use("a"), a scope use("b") has ended with an error
\* and "a" is the current style name again.
C1_Witness ==
    /\ last.op = "exit" /\ last.how = "error" /\ last.name = "b"
    /\ Len(frames) = 1 /\ frames[1].style_name = "a"
    /\ CurrentStyleName = "a"

\* C2: use(name) with a name that is not registered raises the error of the
\* unknown style (a ValueError) and leaves the stack and the name-to-style
\* mapping as they were.
C2_FailedUseChangesNothing ==
    [][(last'.op = "use" /\ last'.name \notin DOMAIN _styles) =>
          /\ last'.raised = "ValueError"
          /\ _stack' = _stack
          /\ _styles' = _styles
          /\ frames' = frames]_vars

\* C2, its case: a use of an unregistered name has failed inside an open
\* scope.
C2_Witness ==
    /\ last.op = "use" /\ last.raised = "ValueError"
    /\ last.name \notin DOMAIN _styles
    /\ _stack # <<>>

\* C3: set(name, style) with a style that is no dict raises TypeError and
\* leaves mapping and stack as they were, so that get(name) answers as
\* before; with a dict it returns that style, stores it under name and
\* leaves every other entry and the stack alone.
C3_SetStoresOnlyDicts ==
    [][last'.op = "set" =>
          /\ _stack' = _stack
          /\ IF ~IsDict(heap[last'.ref])
             THEN /\ last'.raised = "TypeError"
                  /\ _styles' = _styles
                  /\ StylesGet(_styles', last'.name) =
                        StylesGet(_styles, last'.name)
             ELSE /\ last'.raised = "none"
                  /\ last'.ret = Ret("ref", last'.ref, "-")
                  /\ StylesGet(_styles', last'.name) =
                        [raised |-> "none", ret |-> last'.ret]
                  /\ \A n \in StyleNames \ {last'.name} :
                        StylesGet(_styles', n) = StylesGet(_styles, n)]_vars

\* C3, its case: set("a", 5) has failed and get("a") still raises KeyError.
C3_Witness ==
    /\ last.op = "set" /\ last.raised = "TypeError" /\ last.ref = IntRef
    /\ StylesGet(_styles, last.name).raised = "KeyError"

\* C4: every name on the stack is a key of the mapping, the default style
\* name is registered, and current_style does not raise.
C4_StackNamesRegistered ==
    /\ \A i \in 1..Len(_stack) : _stack[i] \in DOMAIN _styles
    /\ DEFAULT_STYLE_NAME \in DOMAIN _styles
    /\ CurrentStyle.raised = "none"

\* C4, its case: two scopes are open and a further use has just failed.
C4_Witness ==
    /\ Len(_stack) = 2
    /\ last.op = "use" /\ last.raised = "ValueError"

\* the value of the current style
CurrentDict == heap[CurrentStyle.ret.ref]

\* C9 as stated: registry.<name> returns the value stored under key <name>
\* of the current style when the key is present, and raises AttributeError
\* exactly when it is absent, whatever dict the current style is.
C9_Original ==
    last.op = "getattr" =>
        IF HasKey(CurrentDict, last.name)
        THEN /\ last.raised = "none"
             /\ last.ret = Ret("value", "-", GetItem(CurrentDict, last.name))
        ELSE last.raised = "AttributeError"

\* C9 amended: a name that dict itself defines (copy) yields that method of
\* the current style, whatever its keys; any other name yields the value
\* under that key, or AttributeError when the key is absent, if the current
\* style is a DotDict, and AttributeError in every case if it is a plain
\* dict.
C9_PassthroughOfDotDict ==
    last.op = "getattr" =>
        IF last.name \in DictClassAttrs
        THEN last.raised = "none" /\ last.ret = Ret("method", "-", last.name)
        ELSE IF CurrentDict.cls = "DotDict"
        THEN IF HasKey(CurrentDict, last.name)
             THEN /\ last.raised = "none"
                  /\ last.ret =
                        Ret("value", "-", GetItem(CurrentDict, last.name))
             ELSE last.raised = "AttributeError"
        ELSE last.raised = "AttributeError" /\ last.ret = NoRet

\* C9, its case: inside a use scope whose style is a DotDict, the lookup of
\* a key it holds has returned the value stored there.
C9_Witness ==
    /\ last.op = "getattr" /\ last.name = "canvas"
    /\ _stack # <<>>
    /\ CurrentDict.cls = "DotDict"
    /\ last.ret = Ret("value", "-", "v2")

\* C10 as stated: while a scope is open, the style its use yielded is the
\* style current_style returns.
C10_Original ==
    frames # <<>> => CurrentStyle.ret.ref = Last(frames).yielded

\* C10 amended: current_style is always the style now registered under the
\* name of the innermost scope; the style yielded on entry is that style,
\* and while the scope stays innermost a step makes the two differ exactly
\* when it is a successful set of the scope's name to another object.
C10_YieldedUntilOverwritten ==
    [][frames' # <<>> =>
          /\ CurrentStyleOf(_styles', _stack') =
                StylesGet(_styles', Last(frames').style_name)
          /\ Len(frames') > Len(frames) =>
                CurrentStyleOf(_styles', _stack').ret.ref =
                    Last(frames').yielded
          /\ (frames' = frames /\ CurrentStyle.ret.ref = Last(frames).yielded)
                => ((CurrentStyleOf(_styles', _stack').ret.ref #
                        Last(frames).yielded)
                    <=> (/\ last'.op = "set" /\ last'.raised = "none"
                         /\ last'.name = Last(frames).style_name
                         /\ last'.ref # Last(frames).yielded))]_vars

\* C10, its case: inside use(name), set(name, other) has replaced the style
\* of the active name, and current_style is now the other object.
C10_Witness ==
    /\ frames # <<>>
    /\ last.op = "set" /\ last.raised = "none"
    /\ last.name = Last(frames).style_name
    /\ last.ref # Last(frames).yielded
    /\ CurrentStyle.ret.ref = last.ref


(***************************************************************************)
(* merge_dicts on dicts A, B and C: merge_dicts(A, B, C), merge_dicts(A, B) *)
(* and merge_dicts(merge_dicts(A, B), C), each result a new object.        *)
(***************************************************************************)
MergeKeys == {"a", "b"}
InputRefs == {"A", "B", "C"}
ResultRefs == {"AB", "ABC", "AB_C"}

MergeOutcome(srcs, out, args, raised) ==
    [op |-> "merge_dicts", srcs |-> srcs, out |-> out, args |-> args,
     raised |-> raised]

\* out = merge_dicts(*srcs): the result is a new dict, held by out
MergeDictsCall(srcs, out) ==
    /\ heap[out] = NoneValue
    /\ \A i \in 1..Len(srcs) : heap[srcs[i]] # NoneValue
    /\ LET args == [i \in 1..Len(srcs) |-> heap[srcs[i]]]
           r == MergeDicts(args, "None")
       IN  /\ heap' = [heap EXCEPT ![out] = r.ret]
           /\ last' = MergeOutcome(srcs, out, args, r.raised)
    /\ UNCHANGED <<_styles, _stack, frames, obj, calls>>

InitMerge ==
    /\ StylesInit
    /\ \E a, b, c \in DictsOver({"dict", "DotDict"}, MergeKeys, Vals) :
          heap = [r \in InputRefs \cup ResultRefs |->
                    CASE r = "A" -> a
                      [] r = "B" -> b
                      [] r = "C" -> c
                      [] OTHER -> NoneValue]
    /\ obj = NoTarget
    /\ calls = <<>>
    /\ last = MergeOutcome(<<>>, "-", <<>>, "none")

NextMerge ==
    \/ MergeDictsCall(<<"A", "B", "C">>, "ABC")
    \/ MergeDictsCall(<<"A", "B">>, "AB")
    \/ MergeDictsCall(<<"AB", "C">>, "AB_C")

SpecMerge == InitMerge /\ [][NextMerge]_vars

\* the last of the dicts that holds key k
LastWith(dicts, k) ==
    CHOOSE i \in 1..Len(dicts) :
        /\ HasKey(dicts[i], k)
        /\ \A j \in (i + 1)..Len(dicts) : ~HasKey(dicts[j], k)

\* merged holds the keys of the dicts among dicts and no other, each with
\* the value of the last dict that holds it
IsLastWinsMerge(merged, dicts) ==
    LET ds == SelectSeq(dicts, IsDict)
    IN  /\ KeysOf(merged) = UNION {KeysOf(ds[i]) : i \in 1..Len(ds)}
        /\ \A k \in KeysOf(merged) :
              GetItem(merged, k) = GetItem(ds[LastWith(ds, k)], k)

\* C8: merge_dicts(A, B, C) equals merge_dicts(merge_dicts(A, B), C); the
\* result of every call holds exactly the keys of its inputs, each with the
\* value of the last input that holds it, and is a new dict: the inputs are
\* as they were before the call.
C8_MergeAssociativeLastWins ==
    /\ (heap["ABC"] # NoneValue /\ heap["AB_C"] # NoneValue) =>
            DictEq(heap["ABC"], heap["AB_C"])
    /\ last.srcs # <<>> =>
          /\ last.raised = "none"
          /\ IsLastWinsMerge(heap[last.out], last.args)
          /\ \A i \in 1..Len(last.srcs) : heap[last.srcs[i]] = last.args[i]

\* C8, its case: both sides are computed, and C overrides a key of A with
\* another value while B adds a key that A and C lack.
C8_Witness ==
    /\ heap["ABC"] # NoneValue /\ heap["AB_C"] # NoneValue
    /\ HasKey(heap["A"], "a") /\ HasKey(heap["C"], "a")
    /\ GetItem(heap["A"], "a") # GetItem(heap["C"], "a")
    /\ GetItem(heap["ABC"], "a") = GetItem(heap["C"], "a")
    /\ HasKey(heap["B"], "b")
    /\ ~HasKey(heap["A"], "b") /\ ~HasKey(heap["C"], "b")
    /\ HasKey(heap["AB_C"], "b")


(***************************************************************************)
(* apply_properties and set_color on a target object.  The target is its   *)
(* attributes, each "absent", "callable" (a method, which records the call *)
(* it receives) or "data" (an attribute that is no callable).              *)
(***************************************************************************)
Scalar(v) == [kind |-> "scalar", elems |-> <<v>>]
Tuple(vs) == [kind |-> "tuple", elems |-> vs]
List(vs) == [kind |-> "list", elems |-> vs]

Kinds == {"absent", "callable", "data"}

\* a call the target received: the method and its positional arguments
Call(attr, args) == [attr |-> attr, args |-> args]

\* getattr(o, attr, None) is not None
HasAttr(o, attr) == o[attr] # "absent"

\* callable(setter), for setter the attribute attr of o, or None
Callable(o, attr) == attr # "None" /\ o[attr] = "callable"

\* f(*value): one positional argument for each element of value
Unpacked(value) == [i \in 1..Len(value.elems) |-> Scalar(value.elems[i])]

(***************************************************************************)
(* apply_properties                                                        *)
(***************************************************************************)
PropNames == {"Foo", "Bar"}
PropVals == {Scalar(5), Tuple(<<1, 2>>), List(<<1, 2>>)}
ApplyAttrs == {"SetFoo", "Foo", "SetBar", "Bar"}

\* "Set{}".format(name)
SetName(name) == CASE name = "Foo" -> "SetFoo" [] name = "Bar" -> "SetBar"

\* the targets: every combination for Foo; Bar has at most a method SetBar
ApplyTargets ==
    {o \in [ApplyAttrs -> Kinds] : o["Bar"] = "absent" /\ o["SetBar"] # "data"}

\* a property source: None, or a dict of properties
Sources == {NoneValue} \cup DictsOver({"dict"}, PropNames, PropVals)

\* a resolution that falls back to the bare name whenever "Set" + name is
\* no callable
ResolveByCallable(o, name) ==
    IF Callable(o, SetName(name)) THEN SetName(name)
    ELSE IF HasAttr(o, name) THEN name
    ELSE "None"

\* getattr(obj, "Set{}".format(name), getattr(obj, name, None)): the name
\* of the attribute found, "None" when the result is None
Resolve(o, name) ==
    IF HasAttr(o, SetName(name)) THEN SetName(name)
    ELSE IF HasAttr(o, name) THEN name
    ELSE "None"

\* the arguments of the setter: a tuple is unpacked, anything else is the
\* only argument
ApplyArgs(value) == IF value.kind = "tuple" THEN Unpacked(value) ELSE <<value>>

\* the loop of apply_properties over the items of the merged dict
RECURSIVE ApplyLoop(_, _, _, _)
ApplyLoop(o, items, i, cs) ==
    IF i > Len(items)
    THEN cs
    ELSE LET setter == Resolve(o, items[i][1])
         IN  ApplyLoop(o, items, i + 1,
                       IF ~Callable(o, setter)
                       THEN cs
                       ELSE Append(cs, Call(setter, ApplyArgs(items[i][2]))))

ApplyOutcome(sources, merged, raised) ==
    [op |-> "apply_properties", sources |-> sources, merged |-> merged,
     raised |-> raised]

\* apply_properties(obj, *sources), the first operation on the target
ApplyProperties(sources) ==
    /\ last.sources = <<>>
    /\ LET m == MergeDicts(sources, "None")
       IN  IF m.raised # "none"
           THEN /\ last' = ApplyOutcome(sources, NoneValue, m.raised)
                /\ UNCHANGED calls
           ELSE /\ calls' = ApplyLoop(obj, m.ret.items, 1, calls)
                /\ last' = ApplyOutcome(sources, m.ret, "none")
    /\ UNCHANGED <<_styles, _stack, frames, heap, obj>>

InitApply ==
    /\ StylesInit
    /\ heap = <<>>
    /\ obj \in ApplyTargets
    /\ calls = <<>>
    /\ last = ApplyOutcome(<<>>, NoneValue, "none")

NextApply ==
    /\ last.sources = <<>>
    /\ \E n \in 1..MaxSources : \E sources \in [1..n -> Sources] :
            ApplyProperties(sources)

SpecApply == InitApply /\ [][NextApply]_vars

\* the calls among cs to one of attrs
CallsTo(cs, attrs) == SelectSeq(cs, LAMBDA c : c.attr \in attrs)

\* the target received, for property name, exactly the call of attr with
\* value (unpacked if a tuple), or no call at all if attr is "None"
ReceivedFor(name, attr, value) ==
    LET got == CallsTo(calls, {SetName(name), name})
    IN  IF attr = "None"
        THEN got = <<>>
        ELSE got = <<Call(attr, IF value.kind = "tuple"
                                THEN Unpacked(value)
                                ELSE <<value>>)>>

\* C5 as stated: for every property of the merged mapping the setter is
\* "Set" + name when that is callable, otherwise the bare name when that is
\* callable, and it is invoked exactly once; the property is skipped only
\* when neither is callable.
C5_Original ==
    last.sources # <<>> /\ last.raised = "none" =>
        \A name \in KeysOf(last.merged) :
            ReceivedFor(name,
                        IF Callable(obj, SetName(name)) THEN SetName(name)
                        ELSE IF Callable(obj, name) THEN name
                        ELSE "None",
                        GetItem(last.merged, name))

\* C5 amended: the setter is the attribute "Set" + name when the target has
\* one, callable or not, and the bare name only when it has none; the
\* property is applied, by exactly one call, when that attribute is
\* callable and skipped otherwise.  The value is the only argument unless
\* it is a tuple, which is unpacked.
C5_SetterByPresence ==
    last.sources # <<>> /\ last.raised = "none" =>
        \A name \in KeysOf(last.merged) :
            ReceivedFor(name,
                        IF HasAttr(obj, SetName(name))
                        THEN IF Callable(obj, SetName(name))
                             THEN SetName(name) ELSE "None"
                        ELSE IF Callable(obj, name) THEN name
                        ELSE "None",
                        GetItem(last.merged, name))

\* C5, its case: the target has a data attribute SetFoo and a method Foo,
\* Foo is a property to apply, and Foo was skipped while the tuple of Bar
\* went, unpacked, to SetBar.
C5_Witness ==
    /\ last.sources # <<>> /\ last.raised = "none"
    /\ obj["SetFoo"] = "data" /\ obj["Foo"] = "callable"
    /\ HasKey(last.merged, "Foo")
    /\ calls = <<Call("SetBar", <<Scalar(1), Scalar(2)>>)>>

\* C6 as stated: apply_properties raises nothing, whatever sequence of
\* mappings and None it is given.
C6_Original ==
    last.sources # <<>> => last.raised = "none"

\* C6 amended: with at least one mapping among the sources nothing is
\* raised, the None entries are skipped, the mappings are merged last-wins
\* and every merged property with a callable setter is applied with its
\* merged value; with None for every source the call raises TypeError and
\* applies nothing.
C6_RaisesOnlyWithoutMapping ==
    last.sources # <<>> =>
        IF \A i \in 1..Len(last.sources) : last.sources[i] = NoneValue
        THEN last.raised = "TypeError" /\ calls = <<>>
        ELSE /\ last.raised = "none"
             /\ IsLastWinsMerge(last.merged, last.sources)
             /\ \A name \in KeysOf(last.merged) :
                    LET setter == Resolve(obj, name)
                    IN  ReceivedFor(name,
                                    IF Callable(obj, setter)
                                    THEN setter ELSE "None",
                                    GetItem(last.merged, name))
             /\ \A i \in 1..Len(calls) :
                    \E name \in KeysOf(last.merged) :
                        calls[i].attr \in {SetName(name), name}

\* C6, its case: the first source is None, the second a mapping, and its
\* property was applied.
C6_Witness ==
    /\ Len(last.sources) = 2
    /\ last.sources[1] = NoneValue
    /\ last.raised = "none"
    /\ calls = <<Call("SetFoo", <<Scalar(5)>>)>>


(***************************************************************************)
(* set_color                                                               *)
(***************************************************************************)
ColorAttrs ==
    {"SetLineColor", "SetMarkerColor", "SetFillColor", "SetTextColor",
     "SetLabelColor"}

\* the keys of funcs
KnownFlags == {"l", "m", "f", "t"}

\* funcs[flag]
Funcs(flag) ==
    CASE flag = "l" -> <<"SetLineColor">>
      [] flag = "m" -> <<"SetMarkerColor">>
      [] flag = "f" -> <<"SetFillColor">>
      [] flag = "t" -> <<"SetTextColor", "SetLabelColor">>

\* the characters of the flag strings: the four flags and an unknown one
FlagChars == KnownFlags \cup {"x"}

\* the targets: every combination of the five setters
ColorTargets == [ColorAttrs -> Kinds]
Colors == {Scalar(2), Tuple(<<1, 2>>), List(<<1, 2>>)}

\* the arguments of a color setter: a tuple or a list is unpacked
ColorArgs(color) ==
    IF color.kind \in {"tuple", "list"} THEN Unpacked(color) ELSE <<color>>

\* the inner loop of set_color, over the setters of one flag
RECURSIVE FuncLoop(_, _, _, _, _)
FuncLoop(o, color, attrs, j, cs) ==
    IF j > Len(attrs)
    THEN cs
    ELSE FuncLoop(o, color, attrs, j + 1,
                  IF ~Callable(o, attrs[j])
                  THEN cs
                  ELSE Append(cs, Call(attrs[j], ColorArgs(color))))

\* the outer loop of set_color, over the flags
RECURSIVE FlagLoop(_, _, _, _, _)
FlagLoop(o, color, flags, i, cs) ==
    IF i > Len(flags)
    THEN [raised |-> "none", flag |-> "-", calls |-> cs]
    ELSE IF flags[i] \notin KnownFlags
    THEN [raised |-> "ValueError", flag |-> flags[i], calls |-> cs]
    ELSE FlagLoop(o, color, flags, i + 1,
                  FuncLoop(o, color, Funcs(flags[i]), 1, cs))

\* set_color that checks every flag before it invokes a setter
SetColorCheckedFirst(o, color, flags, cs) ==
    IF \E i \in 1..Len(flags) : flags[i] \notin KnownFlags
    THEN [raised |-> "ValueError",
          flag |-> flags[CHOOSE i \in 1..Len(flags) :
                            /\ flags[i] \notin KnownFlags
                            /\ \A j \in 1..(i - 1) : flags[j] \in KnownFlags],
          calls |-> cs]
    ELSE FlagLoop(o, color, flags, 1, cs)

\* set_color(o, color, flags) on a target that has received the calls cs:
\* what is raised, the flag the error names, the calls received afterwards
SetColorRun(o, color, flags, cs) == FlagLoop(o, color, flags, 1, cs)

ColorOutcome(color, flags, raised, flag) ==
    [op |-> "set_color", color |-> color, flags |-> flags, raised |-> raised,
     flag |-> flag]

NotCalled == ColorOutcome(Scalar(0), <<>>, "none", "init")

\* set_color(obj, color, flags), the first operation on the target
SetColor(color, flags) ==
    /\ last = NotCalled
    /\ LET r == SetColorRun(obj, color, flags, calls)
       IN  /\ calls' = r.calls
           /\ last' = ColorOutcome(color, flags, r.raised, r.flag)
    /\ UNCHANGED <<_styles, _stack, frames, heap, obj>>

InitColor ==
    /\ StylesInit
    /\ heap = <<>>
    /\ obj \in ColorTargets
    /\ calls = <<>>
    /\ last = NotCalled

NextColor ==
    /\ last = NotCalled
    /\ \E color \in Colors : \E n \in 0..MaxFlags :
            \E flags \in [1..n -> FlagChars] : SetColor(color, flags)

SpecColor == InitColor /\ [][NextColor]_vars

\* the position of the first unknown flag in flags, 0 when all are known
FirstUnknown(flags) ==
    IF \A i \in 1..Len(flags) : flags[i] \in KnownFlags
    THEN 0
    ELSE CHOOSE i \in 1..Len(flags) :
            /\ flags[i] \notin KnownFlags
            /\ \A j \in 1..(i - 1) : flags[j] \in KnownFlags

\* the positions before p whose flag has attr among its setters
UsesOf(flags, p, attr) ==
    {i \in 1..(p - 1) :
        \E j \in 1..Len(Funcs(flags[i])) : Funcs(flags[i])[j] = attr}

\* C7: a flag string with an unknown character makes set_color raise
\* ValueError naming the first such character; every callable setter of the
\* flags before it has been invoked, once for each occurrence of its flag,
\* with the color, and no setter was invoked for a flag at or after it.
C7_UnknownFlagFailsFast ==
    LET p == FirstUnknown(last.flags)
    IN  p # 0 =>
          /\ last.raised = "ValueError"
          /\ last.flag = last.flags[p]
          /\ \A attr \in ColorAttrs :
                Len(CallsTo(calls, {attr})) =
                    IF obj[attr] = "callable"
                    THEN Cardinality(UsesOf(last.flags, p, attr))
                    ELSE 0
          /\ \A i \in 1..Len(calls) :
                calls[i].args =
                    IF last.color.kind = "scalar"
                    THEN <<last.color>> ELSE Unpacked(last.color)

\* C7, its case: set_color(obj, 2, "lxm") on a target with every setter:
\* the error names "x", SetLineColor was invoked, SetMarkerColor was not.
C7_Witness ==
    /\ last.flags = <<"l", "x", "m">>
    /\ last.raised = "ValueError" /\ last.flag = "x"
    /\ \A attr \in ColorAttrs : obj[attr] = "callable"
    /\ calls = <<Call("SetLineColor", <<Scalar(2)>>)>>

=============================================================================
